---- MODULE Spec2Model ----
(***************************************************************************)
(* A model of src/src/main.rs: the compile-then-execute pipeline of the    *)
(* interpreter (BfToken::from_source, BfToken::find_jumps, parse).          *)
(*                                                                         *)
(* Indices (idx, pointer, the entries of jumps and queue) are the program's *)
(* 0-based usize values; a TLA+ sequence is 1-based, so element i of a Vec  *)
(* v is At(v, i) == v[i + 1].                                               *)
(*                                                                         *)
(* Left out: the timing diagnostics.  MAX_ITER (line 5) is never read by    *)
(* the program, so nothing here stands for it; the counter iter of parse is *)
(* kept, and the exploration follows a run for MaxIter iterations.  isize   *)
(* sums in AddAssign cannot overflow for sources of the lengths explored.   *)
(***************************************************************************)
EXTENDS Integers, Sequences, FiniteSets, TLC

VARIABLES code, stdin, pc, tokens, jumps, queue, fj, stack, pointer, idx,
          iter, input, out, panic, nread, ref

vars == <<code, stdin, pc, tokens, jumps, queue, fj, stack, pointer, idx,
          iter, input, out, panic, nread, ref>>

----------------------------------------------------------------------------
(* Bounds of the exploration *)

MaxCode == 4

MaxRun == 513

MaxInput == 2

MaxTape == 7

(* No shorter than MaxCode, so that a source of '.' alone runs to its end *)
MaxOut == 4

(* More than the 513 iterations of the longest run that ends, "+[+]" *)
MaxIter == 520

----------------------------------------------------------------------------
(* Small helpers *)

At(v, i) == v[i + 1]

Rep(x, k) == [i \in 1..k |-> x]

Reverse(s) == [i \in 1..Len(s) |-> s[Len(s) + 1 - i]]

Front(s) == SubSeq(s, 1, Len(s) - 1)

Last(s) == s[Len(s)]

----------------------------------------------------------------------------
(* enum BfToken *)

CEL(n) == [op |-> "CEL", n |-> n]

MOV(n) == [op |-> "MOV", n |-> n]

JUM == [op |-> "JUM", n |-> 0]

BAC == [op |-> "BAC", n |-> 0]

ACC == [op |-> "ACC", n |-> 0]

OUT == [op |-> "OUT", n |-> 0]

NAN == [op |-> "NAN", n |-> 0]

(* The equality a derive would give on the variants: same variant, equal *)
TokenEqSameVariant(a, b) == a.op = b.op

(* impl PartialEq for BfToken: only CEL/CEL and MOV/MOV compare equal *)
TokenEq(a, b) ==
    \/ a.op = "CEL" /\ b.op = "CEL"
    \/ a.op = "MOV" /\ b.op = "MOV"

(* impl From<char> for BfToken *)
FromChar(c) ==
    CASE c = ">" -> MOV(1)
      [] c = "<" -> MOV(-1)
      [] c = "+" -> CEL(1)
      [] c = "-" -> CEL(-1)
      [] c = "." -> OUT
      [] c = "," -> ACC
      [] c = "[" -> JUM
      [] c = "]" -> BAC
      [] OTHER -> NAN

(* impl AddAssign for BfToken *)
AddAssign(self, rhs) ==
    IF self.op = "CEL" /\ rhs.op = "CEL" THEN CEL(self.n + rhs.n)
    ELSE IF self.op = "MOV" /\ rhs.op = "MOV" THEN MOV(self.n + rhs.n)
    ELSE self

(* A lexer that converts every char and drops none *)
LexKeepsNAN(src) == [i \in 1..Len(src) |-> FromChar(src[i])]

(* from_source, the filter_map: every char is converted, NAN is dropped *)
Lex(src) ==
    SelectSeq([i \in 1..Len(src) |-> FromChar(src[i])], LAMBDA t : t.op # "NAN")

(* from_source, the closure of the fold: one token folded into acc *)
FoldStep(acc, next) ==
    LET last == Len(acc) - 1
    IN  IF TokenEq(At(acc, last), next)
        THEN [acc EXCEPT ![last + 1] = AddAssign(At(acc, last), next)]
        ELSE Append(acc, next)

(* Iterator::fold over toks[lo..hi], left to right.  The range is split in *)
(* two, and the left half is evaluated (the test on its length) before the *)
(* right half starts, so that the evaluation nests only logarithmically    *)
(* deep; the tokens are still folded into acc one at a time in order.      *)
RECURSIVE Fold(_, _, _, _)
Fold(acc, toks, lo, hi) ==
    IF lo > hi THEN acc
    ELSE IF lo = hi THEN FoldStep(acc, toks[lo])
    ELSE LET mid == (lo + hi) \div 2
             left == Fold(acc, toks, lo, mid)
         IN  IF Len(left) > 0 THEN Fold(left, toks, mid + 1, hi) ELSE left

(* from_source, the fold: it starts from vec![BfToken::NAN] *)
Fuse(toks) == Fold(<<NAN>>, toks, 1, Len(toks))

(* str::repeat(n as usize) for an isize n. A negative n cast to usize is    *)
(* n + 2^64, above isize::MAX, and the allocation of that many bytes panics *)
(* with "capacity overflow"; otherwise the result is n copies of c.         *)
RepeatAsUsize(c, n) ==
    IF n < 0
    THEN [ok |-> FALSE, text |-> <<>>]
    ELSE [ok |-> TRUE, text |-> Rep(c, n)]

(* String::from(BfToken): the source text of a token, or a panic *)
StringFrom(value) ==
    CASE value.op = "CEL" ->
           IF value.n > 0 THEN RepeatAsUsize("+", value.n)
           ELSE IF value.n < 0 THEN RepeatAsUsize("-", value.n)
           ELSE [ok |-> TRUE, text |-> <<>>]
      [] value.op = "MOV" ->
           IF value.n > 0 THEN RepeatAsUsize(">", value.n)
           ELSE IF value.n < 0 THEN RepeatAsUsize("<", value.n)
           ELSE [ok |-> TRUE, text |-> <<>>]
      [] value.op = "JUM" -> [ok |-> TRUE, text |-> <<"[">>]
      [] value.op = "BAC" -> [ok |-> TRUE, text |-> <<"]">>]
      [] value.op = "ACC" -> [ok |-> TRUE, text |-> <<",">>]
      [] value.op = "OUT" -> [ok |-> TRUE, text |-> <<".">>]
      [] value.op = "NAN" -> [ok |-> TRUE, text |-> <<>>]

(* Vec::contains(&x): some element == x under PartialEq *)
Contains(toks, x) == \E i \in 1..Len(toks) : TokenEq(toks[i], x)

----------------------------------------------------------------------------
(* The programs and inputs explored *)

Alphabet == {">", "<", "+", "-", ".", ",", "[", "]", "#"}

ShortSources == UNION {[1..k -> Alphabet] : k \in 0..MaxCode}

Scenario64 ==
    Rep("+", 8) \o <<"[", ">">> \o Rep("+", 8) \o <<"<", "-", "]", ">", ".">>

Scenarios ==
    { <<"+", "+", "+", ".">>,
      Scenario64,
      <<"+", ">", "+", "<", "<", ".">>,
      <<">", "+", "<", "<", "+">>,
      <<">", ">", "+", "<", "<", "-", ">", ">", ">">>,
      <<",", ".", ",", ".", ",", ".">>,
      <<",", "[", ".", ",", "]">>,
      <<"+", "[", "[", "-", "]", "]", "[", "]">> }

(* Long runs of one character after a cell brought to 0, 1, 128 or 255 *)
RunSources ==
    { Rep("+", a) \o <<".">> \o Rep(c, k) :
        a \in {0, 1, 128, 255}, c \in {"+", "-"}, k \in 0..MaxRun }

InputByte(i) == (i * 89) % 256

Inputs == { [i \in 1..k |-> InputByte(i)] : k \in 0..MaxInput }

HasInput(src) == \E i \in 1..Len(src) : src[i] = ","

Sources == ShortSources \cup Scenarios \cup RunSources

(* The host supplies bytes only to a source that has a ',' in it *)
InputsFor(src) == IF HasInput(src) THEN Inputs ELSE {<<>>}

----------------------------------------------------------------------------
(* State after parse has created its locals and before from_source runs *)

NoPanic == [msg |-> "", at |-> <<>>]

RefInit ==
    [pc |-> "idle", tokens |-> <<>>, jumps |-> <<>>, stack |-> <<0>>,
     pointer |-> 0, idx |-> 0, input |-> <<>>, out |-> <<>>]

Init ==
    /\ code \in Sources
    /\ stdin \in InputsFor(code)
    /\ pc = "from_source"
    /\ tokens = <<>>
    /\ jumps = <<>>
    /\ queue = <<>>
    /\ fj = 0
    /\ stack = <<0>>
    /\ pointer = 0
    /\ idx = 0
    /\ iter = 0
    /\ input = <<>>
    /\ out = <<>>
    /\ panic = NoPanic
    /\ nread = 0
    /\ ref = RefInit

(* from_source up to the call of find_jumps, and find_jumps' two locals *)
FromSource ==
    /\ pc = "from_source"
    /\ tokens' = Fuse(Lex(code))
    /\ jumps' = Rep(0, Len(tokens'))
    /\ queue' = <<>>
    /\ fj' = 0
    /\ pc' = "find_jumps"
    /\ UNCHANGED <<code, stdin, stack, pointer, idx, input, out, panic, nread, ref, iter>>

----------------------------------------------------------------------------
(* find_jumps: one action per iteration of its for loop, by match arm *)

(* A resolver that records only the forward entry of a pair *)
PairJumpsForwardOnly(js, temp, i) == [js EXCEPT ![temp + 1] = i]

(* The two writes of the BAC arm: jumps[temp] = idx; jumps[idx] = temp *)
PairJumps(js, temp, i) == [js EXCEPT ![temp + 1] = i, ![i + 1] = temp]

InFindJumps == pc = "find_jumps" /\ fj < Len(tokens)

FindJumpsJUM ==
    /\ InFindJumps
    /\ At(tokens, fj).op = "JUM"
    /\ queue' = Append(queue, fj)
    /\ fj' = fj + 1
    /\ UNCHANGED <<code, stdin, pc, tokens, jumps, stack, pointer, idx, input,
                   out, panic, nread, ref, iter>>

(* A resolver that takes the oldest pending index, as from a queue *)
FindJumpsBACFifo ==
    /\ InFindJumps
    /\ At(tokens, fj).op = "BAC"
    /\ queue # <<>>
    /\ jumps' = PairJumps(jumps, Head(queue), fj)
    /\ queue' = Tail(queue)
    /\ fj' = fj + 1
    /\ UNCHANGED <<code, stdin, pc, tokens, stack, pointer, idx, input, out,
                   panic, nread, ref, iter>>

FindJumpsBAC ==
    /\ InFindJumps
    /\ At(tokens, fj).op = "BAC"
    /\ queue # <<>>
    /\ jumps' = PairJumps(jumps, Last(queue), fj)
    /\ queue' = Front(queue)
    /\ fj' = fj + 1
    /\ UNCHANGED <<code, stdin, pc, tokens, stack, pointer, idx, input, out,
                   panic, nread, ref, iter>>

(* queue.pop() is None: panic!("Unopened bracket at {idx}") *)
FindJumpsUnopened ==
    /\ InFindJumps
    /\ At(tokens, fj).op = "BAC"
    /\ queue = <<>>
    /\ panic' = [msg |-> "Unopened bracket at", at |-> <<fj>>]
    /\ pc' = "panicked"
    /\ UNCHANGED <<code, stdin, tokens, jumps, queue, fj, stack, pointer, idx,
                   input, out, nread, ref, iter>>

FindJumpsOther ==
    /\ InFindJumps
    /\ At(tokens, fj).op \notin {"JUM", "BAC"}
    /\ fj' = fj + 1
    /\ UNCHANGED <<code, stdin, pc, tokens, jumps, queue, stack, pointer, idx,
                   input, out, panic, nread, ref, iter>>

(* assert!(queue.is_empty(), "Unclosed bracket") fails: the message carries *)
(* no index                                                                *)
FindJumpsUnclosed ==
    /\ pc = "find_jumps"
    /\ fj = Len(tokens)
    /\ queue # <<>>
    /\ panic' = [msg |-> "Unclosed bracket", at |-> <<>>]
    /\ pc' = "panicked"
    /\ UNCHANGED <<code, stdin, tokens, jumps, queue, fj, stack, pointer, idx,
                   input, out, nread, ref, iter>>

(* A resolver without the final assert: it returns whatever the queue holds *)
FindJumpsReturnUnchecked ==
    /\ pc = "find_jumps"
    /\ fj = Len(tokens)
    /\ pc' = "read_input"
    /\ UNCHANGED <<code, stdin, tokens, jumps, queue, fj, stack, pointer, idx,
                   input, out, panic, nread, ref, iter>>

(* The assert passes; find_jumps and from_source return *)
FindJumpsReturn ==
    /\ pc = "find_jumps"
    /\ fj = Len(tokens)
    /\ queue = <<>>
    /\ pc' = "read_input"
    /\ UNCHANGED <<code, stdin, tokens, jumps, queue, fj, stack, pointer, idx,
                   input, out, panic, nread, ref, iter>>

----------------------------------------------------------------------------
(* parse: the locals set between from_source and the while loop *)

ReadInput ==
    /\ pc = "read_input"
    /\ input' = IF Contains(tokens, ACC) THEN Reverse(stdin) ELSE <<>>
    /\ pointer' = 0
    /\ idx' = 0
    /\ iter' = 0
    /\ out' = <<>>
    /\ pc' = "exec"
    /\ UNCHANGED <<code, stdin, tokens, jumps, queue, fj, stack, panic, nread, ref>>

----------------------------------------------------------------------------
(* parse: the arms of the match in the while loop, as functions *)

(* A rightward move that makes room for one cell only *)
MoveRightOneCell(stk, ptr, n) ==
    [stack   |-> IF ptr + n >= Len(stk) THEN stk \o Rep(0, 1) ELSE stk,
     pointer |-> ptr + n]

(* MOV(N), N > 0 *)
MoveRight(stk, ptr, n) ==
    [stack   |-> IF ptr + n >= Len(stk) THEN stk \o Rep(0, n) ELSE stk,
     pointer |-> ptr + n]

(* A leftward move that splices the zeros over the first cells, as with the *)
(* range 0..n - pointer in place of 0..0                                   *)
MoveLeftOverwrites(stk, ptr, n) ==
    IF ptr >= n
    THEN [stack |-> stk, pointer |-> ptr - n]
    ELSE [stack |-> Rep(0, n - ptr) \o SubSeq(stk, n - ptr + 1, Len(stk)),
          pointer |-> ptr]

(* MOV(N), N <= 0, n = N.unsigned_abs() *)
MoveLeft(stk, ptr, n) ==
    IF ptr >= n
    THEN [stack |-> stk, pointer |-> ptr - n]
    ELSE [stack |-> Rep(0, n - ptr) \o stk, pointer |-> ptr]

MovePointer(stk, ptr, N) ==
    IF N > 0 THEN MoveRight(stk, ptr, N) ELSE MoveLeft(stk, ptr, -N)

(* n as u8: the low eight bits *)
AsU8(n) == n % 256

(* u8::saturating_add in place of wrapping_add *)
SaturatingAdd(a, b) == IF a + b > 255 THEN 255 ELSE a + b

WrappingAdd(a, b) == (a + b) % 256

WrappingSub(a, b) == (a + 256 - b) % 256

(* CEL(n) *)
CellDelta(v, n) ==
    IF n > 0 THEN WrappingAdd(v, AsU8(n)) ELSE WrappingSub(v, AsU8(-n))

(* A loop start that adds one to the target and then runs idx += 1 as well *)
AfterJUMSkipsTwo(js, i, cell) == (IF cell = 0 THEN At(js, i) + 1 ELSE i) + 1

(* JUM: idx = jumps[idx] when the cell is 0, then idx += 1 *)
AfterJUM(js, i, cell) == (IF cell = 0 THEN At(js, i) ELSE i) + 1

(* A loop end that jumps back on a zero cell *)
AfterBACInverted(js, i, cell) == (IF cell = 0 THEN At(js, i) ELSE i) + 1

(* BAC: idx = jumps[idx] when the cell is not 0, then idx += 1 *)
AfterBAC(js, i, cell) == (IF cell # 0 THEN At(js, i) ELSE i) + 1

(* ACC: input.pop().unwrap_or(0); pop takes the last element of the Vec *)
PopValue(inp) == IF inp = <<>> THEN 0 ELSE Last(inp)

PopRest(inp) == IF inp = <<>> THEN <<>> ELSE Front(inp)

----------------------------------------------------------------------------
(* parse: one action per iteration of the while loop, by match arm *)

InExec == pc = "exec" /\ idx < Len(tokens)

(* The iteration is one of the first MaxIter of the run *)
Running == InExec /\ iter < MaxIter

Token == At(tokens, idx)

Cell == At(stack, pointer)

StepMOV ==
    /\ Running
    /\ Token.op = "MOV"
    /\ LET m == MovePointer(stack, pointer, Token.n)
       IN  /\ Len(m.stack) <= MaxTape
           /\ stack' = m.stack
           /\ pointer' = m.pointer
    /\ idx' = idx + 1
    /\ iter' = iter + 1
    /\ UNCHANGED <<code, stdin, pc, tokens, jumps, queue, fj, input, out, panic,
                   nread, ref>>

StepCEL ==
    /\ Running
    /\ Token.op = "CEL"
    /\ stack' = [stack EXCEPT ![pointer + 1] = CellDelta(Cell, Token.n)]
    /\ idx' = idx + 1
    /\ iter' = iter + 1
    /\ UNCHANGED <<code, stdin, pc, tokens, jumps, queue, fj, pointer, input, out,
                   panic, nread, ref>>

StepJUM ==
    /\ Running
    /\ Token.op = "JUM"
    /\ idx' = AfterJUM(jumps, idx, Cell)
    /\ iter' = iter + 1
    /\ UNCHANGED <<code, stdin, pc, tokens, jumps, queue, fj, stack, pointer,
                   input, out, panic, nread, ref>>

StepBAC ==
    /\ Running
    /\ Token.op = "BAC"
    /\ idx' = AfterBAC(jumps, idx, Cell)
    /\ iter' = iter + 1
    /\ UNCHANGED <<code, stdin, pc, tokens, jumps, queue, fj, stack, pointer,
                   input, out, panic, nread, ref>>

(* nread is a history variable: how many bytes of stdin the Input           *)
(* instructions executed so far account for (one each, until it runs out)  *)
StepACC ==
    /\ Running
    /\ Token.op = "ACC"
    /\ stack' = [stack EXCEPT ![pointer + 1] = PopValue(input)]
    /\ input' = PopRest(input)
    /\ nread' = IF nread < Len(stdin) THEN nread + 1 ELSE nread
    /\ idx' = idx + 1
    /\ iter' = iter + 1
    /\ UNCHANGED <<code, stdin, pc, tokens, jumps, queue, fj, pointer, out, panic,
                   ref>>

StepOUT ==
    /\ Running
    /\ Token.op = "OUT"
    /\ Len(out) < MaxOut
    /\ out' = Append(out, Cell)
    /\ idx' = idx + 1
    /\ iter' = iter + 1
    /\ UNCHANGED <<code, stdin, pc, tokens, jumps, queue, fj, stack, pointer,
                   input, panic, nread, ref>>

(* An arm _ => continue: the iteration ends before idx += 1 and iter += 1 *)
StepNANContinue ==
    /\ Running
    /\ Token.op = "NAN"
    /\ UNCHANGED <<code, stdin, pc, tokens, jumps, queue, fj, stack, pointer,
                   idx, input, out, panic, nread, ref, iter>>

(* The arm _ => (): only the NAN the fold starts from reaches it *)
StepNAN ==
    /\ Running
    /\ Token.op = "NAN"
    /\ idx' = idx + 1
    /\ iter' = iter + 1
    /\ UNCHANGED <<code, stdin, pc, tokens, jumps, queue, fj, stack, pointer,
                   input, out, panic, nread, ref>>

(* A loop that also ends once a fixed number of iterations is done *)
HaltAtStepLimit ==
    /\ pc = "exec"
    /\ idx >= Len(tokens) \/ iter >= 100
    /\ pc' = "done"
    /\ UNCHANGED <<code, stdin, tokens, jumps, queue, fj, stack, pointer, idx,
                   input, out, panic, nread, ref, iter>>

(* The while condition idx < tokens.len() fails *)
Halt ==
    /\ pc = "exec"
    /\ idx >= Len(tokens)
    /\ pc' = "done"
    /\ UNCHANGED <<code, stdin, tokens, jumps, queue, fj, stack, pointer, idx,
                   input, out, panic, nread, ref, iter>>

----------------------------------------------------------------------------
(* The reference run: parse executed on the stream before the fold, that    *)
(* is on Lex(code), the single-magnitude instructions.  It runs after the   *)
(* program's own run has halted and keeps its state in ref.                 *)

(* find_jumps as a function: the loop from index i with jumps js, queue q *)
RECURSIVE FindJumpsFrom(_, _, _, _)
FindJumpsFrom(toks, i, js, q) ==
    IF i = Len(toks) THEN [ok |-> q = <<>>, jumps |-> js]
    ELSE IF At(toks, i).op = "JUM" THEN FindJumpsFrom(toks, i + 1, js, Append(q, i))
    ELSE IF At(toks, i).op = "BAC"
         THEN IF q = <<>> THEN [ok |-> FALSE, jumps |-> js]
              ELSE FindJumpsFrom(toks, i + 1, PairJumps(js, Last(q), i), Front(q))
    ELSE FindJumpsFrom(toks, i + 1, js, q)

FindJumps(toks) == FindJumpsFrom(toks, 0, Rep(0, Len(toks)), <<>>)

(* One iteration of the while loop of parse on the record r *)
ExecStep(r) ==
    LET t == At(r.tokens, r.idx)
        c == At(r.stack, r.pointer)
        m == MovePointer(r.stack, r.pointer, t.n)
    IN  CASE t.op = "MOV" ->
               [r EXCEPT !.stack = m.stack, !.pointer = m.pointer, !.idx = r.idx + 1]
          [] t.op = "CEL" ->
               [r EXCEPT !.stack[r.pointer + 1] = CellDelta(c, t.n), !.idx = r.idx + 1]
          [] t.op = "JUM" -> [r EXCEPT !.idx = AfterJUM(r.jumps, r.idx, c)]
          [] t.op = "BAC" -> [r EXCEPT !.idx = AfterBAC(r.jumps, r.idx, c)]
          [] t.op = "ACC" ->
               [r EXCEPT !.stack[r.pointer + 1] = PopValue(r.input),
                         !.input = PopRest(r.input), !.idx = r.idx + 1]
          [] t.op = "OUT" -> [r EXCEPT !.out = Append(r.out, c), !.idx = r.idx + 1]
          [] OTHER -> [r EXCEPT !.idx = r.idx + 1]

RefStart ==
    /\ pc = "done"
    /\ ref.pc = "idle"
    /\ FindJumps(Lex(code)).ok
    /\ ref' = [pc |-> "exec", tokens |-> Lex(code),
               jumps |-> FindJumps(Lex(code)).jumps,
               stack |-> <<0>>, pointer |-> 0, idx |-> 0,
               input |-> IF Contains(Lex(code), ACC) THEN Reverse(stdin) ELSE <<>>,
               out |-> <<>>]
    /\ UNCHANGED <<code, stdin, pc, tokens, jumps, queue, fj, stack, pointer, idx,
                   input, out, panic, nread, iter>>

RefStep ==
    /\ ref.pc = "exec"
    /\ ref.idx < Len(ref.tokens)
    /\ Len(ExecStep(ref).stack) <= MaxTape
    /\ Len(ExecStep(ref).out) <= MaxOut
    /\ ref' = ExecStep(ref)
    /\ UNCHANGED <<code, stdin, pc, tokens, jumps, queue, fj, stack, pointer, idx,
                   input, out, panic, nread, iter>>

RefHalt ==
    /\ ref.pc = "exec"
    /\ ref.idx >= Len(ref.tokens)
    /\ ref' = [ref EXCEPT !.pc = "done"]
    /\ UNCHANGED <<code, stdin, pc, tokens, jumps, queue, fj, stack, pointer, idx,
                   input, out, panic, nread, iter>>

----------------------------------------------------------------------------

Next ==
    \/ FromSource
    \/ FindJumpsJUM
    \/ FindJumpsBAC
    \/ FindJumpsUnopened
    \/ FindJumpsOther
    \/ FindJumpsUnclosed
    \/ FindJumpsReturn
    \/ ReadInput
    \/ StepMOV
    \/ StepCEL
    \/ StepJUM
    \/ StepBAC
    \/ StepACC
    \/ StepOUT
    \/ StepNAN
    \/ Halt

Spec == Init /\ [][Next]_vars

(* The program's run followed by the reference run, on the short sources *)
InitFusion == Init /\ code \in ShortSources \cup Scenarios

NextFusion == Next \/ RefStart \/ RefStep \/ RefHalt

SpecFusion == InitFusion /\ [][NextFusion]_vars

----------------------------------------------------------------------------
(* The properties checked *)

(* C1: a leftward PointerDelta(n), m = |n|, from pointer p: if p < m it      *)
(* prepends exactly m - p zero cells and sets the pointer to 0; if p >= m   *)
(* the tape is unchanged and the pointer becomes p - m.                     *)
C1_LeftMoveLandsOnRequestedCell ==
    [][ (InExec /\ Token.op = "MOV" /\ Token.n < 0) =>
          LET m == -Token.n
          IN  IF pointer < m
              THEN stack' = Rep(0, m - pointer) \o stack /\ pointer' = 0
              ELSE stack' = stack /\ pointer' = pointer - m ]_vars

(* The cells of a tape without the zero cells at its two ends: a cell that  *)
(* was never materialised reads as zero, so two runs that differ only in    *)
(* how much of the tape they materialised end with the same tape.           *)
RECURSIVE TrimLeft(_)
TrimLeft(t) == IF t # <<>> /\ Head(t) = 0 THEN TrimLeft(Tail(t)) ELSE t

Trim(t) == Reverse(TrimLeft(Reverse(TrimLeft(t))))

(* C2: for a bracket-balanced source, the run of the fused stream and the   *)
(* run of the unfused stream end with the same output and the same tape.    *)
C2_FusionPreservesBehaviour ==
    (pc = "done" /\ ref.pc = "done") =>
      (out = ref.out /\ Trim(stack) = Trim(ref.stack))

(* C3: after every instruction the pointer is a valid index of the tape,    *)
(* 0 <= pointer < length, however far right a move went.                    *)
C3_PointerInsideTape == 0 <= pointer /\ pointer < Len(stack)

(* C3 happens: a move of three or more cells past the end of the tape has   *)
(* been executed and the pointer is on the last cell.                       *)
C3_Witness ==
    /\ pc = "exec"
    /\ idx > 0
    /\ At(tokens, idx - 1).op = "MOV"
    /\ At(tokens, idx - 1).n >= 3
    /\ Len(stack) >= 4
    /\ pointer = Len(stack) - 1

(* |n| single-magnitude steps applied to v one at a time, each one the CEL  *)
(* arm with count sgn; the halves are evaluated one after the other.        *)
RECURSIVE UnitSteps(_, _, _)
UnitSteps(v, sgn, k) ==
    IF k = 0 THEN v
    ELSE IF k = 1 THEN CellDelta(v, sgn)
    ELSE LET h == k \div 2
             first == UnitSteps(v, sgn, h)
         IN  IF first >= 0 THEN UnitSteps(first, sgn, k - h) ELSE first

Abs(n) == IF n < 0 THEN -n ELSE n

Sgn(n) == IF n < 0 THEN -1 ELSE 1

(* C4: CellDelta(n) on a cell holding v leaves (v + n) mod 256, the result  *)
(* of |n| single increments or decrements; 255 + 1 is 0 and 0 - 1 is 255.   *)
C4_CellDeltaIsModular ==
    [][ (InExec /\ Token.op = "CEL") =>
          /\ pointer' = pointer
          /\ At(stack', pointer) = (Cell + Token.n) % 256
          /\ At(stack', pointer) = UnitSteps(Cell, Sgn(Token.n), Abs(Token.n))
          /\ (Cell = 255 /\ Token.n = 1 => At(stack', pointer) = 0)
          /\ (Cell = 0 /\ Token.n = -1 => At(stack', pointer) = 255) ]_vars

(* C4 happens: CellDelta(-513) has been executed on a cell holding 1 *)
C4_Witness ==
    /\ pc = "exec"
    /\ idx > 0
    /\ At(tokens, idx - 1) = CEL(-513)
    /\ out = <<1>>
    /\ Cell = 0

(* C5: once the resolver has succeeded, every LoopStart i has jumps[i] = j  *)
(* with j > i the index of a LoopEnd and jumps[j] = i, every LoopEnd j has  *)
(* jumps[j] = i with i < j the index of a LoopStart and jumps[i] = j, and   *)
(* all these entries are inside the stream.                                 *)
C5_JumpTableIsAnInvolution ==
    pc \in {"read_input", "exec", "done"} =>
      \A i \in 0..(Len(tokens) - 1) :
        /\ At(tokens, i).op = "JUM" =>
             /\ i < At(jumps, i) /\ At(jumps, i) < Len(tokens)
             /\ At(tokens, At(jumps, i)).op = "BAC"
             /\ At(jumps, At(jumps, i)) = i
        /\ At(tokens, i).op = "BAC" =>
             /\ 0 <= At(jumps, i) /\ At(jumps, i) < i
             /\ At(tokens, At(jumps, i)).op = "JUM"
             /\ At(jumps, At(jumps, i)) = i

(* C5 happens: the resolver has succeeded on a stream with nested loops *)
C5_Witness ==
    /\ pc = "read_input"
    /\ \E i \in 0..(Len(tokens) - 1) :
         /\ At(tokens, i).op = "JUM"
         /\ At(tokens, i + 1).op = "JUM"
         /\ At(jumps, i) = At(jumps, i + 1) + 1

(* C6: a LoopEnd met with an empty stack fails at once, reporting the index *)
(* of that LoopEnd in the instruction stream; for "]" alone it reports 0.   *)
C6_UnmatchedLoopEndReportsIndex ==
    (pc = "panicked" /\ panic.msg = "Unopened bracket at") =>
      /\ queue = <<>>
      /\ At(tokens, fj).op = "BAC"
      /\ panic.at = <<fj>>
      /\ (code = <<"]">> => panic.at = <<0>>)

(* C7: a non-empty stack after the pass fails reporting every remaining     *)
(* LoopStart index in push order; for "[" alone the list is [0].            *)
C7_UnclosedLoopReportsIndices ==
    (pc = "panicked" /\ panic.msg = "Unclosed bracket") =>
      /\ fj = Len(tokens)
      /\ panic.at = queue
      /\ (code = <<"[">> => panic.at = <<0>>)

(* C8: the k-th Input executed stores the k-th byte of the host's input     *)
(* sequence, and every Input executed after it is exhausted stores 0.       *)
C8_InputReadsHostBytesInOrder ==
    [][ (InExec /\ Token.op = "ACC") =>
          At(stack', pointer) =
            IF nread < Len(stdin) THEN stdin[nread + 1] ELSE 0 ]_vars

(* C9: LoopStart on a zero cell and LoopEnd on a non-zero cell continue at  *)
(* jumps[idx] + 1, just after the partner; every other step advances idx by *)
(* one; and "++++++++[>++++++++<-]>." outputs the one character 64.         *)
C9_LoopControlFlow ==
    /\ [][ InExec =>
             IF Token.op = "JUM" /\ Cell = 0
             THEN idx' = At(jumps, idx) + 1 /\ At(tokens, idx' - 1).op = "BAC"
                  /\ idx' - 1 > idx
             ELSE IF Token.op = "BAC" /\ Cell # 0
             THEN idx' = At(jumps, idx) + 1 /\ At(tokens, idx' - 1).op = "JUM"
                  /\ idx' - 1 < idx
             ELSE idx' = idx + 1 ]_vars
    /\ []((code = Scenario64 /\ pc = "done") => out = <<64>>)

(* C9 happens: the scenario has run to its end and printed 64 *)
C9_Witness == code = Scenario64 /\ pc = "done" /\ out = <<64>> /\ stack = <<0, 64>>

(* C10: fusing the already-fused stream gives back the same stream *)
C10_FusionIdempotent == pc # "from_source" => Fuse(tokens) = tokens

(* C11: while a compiled program runs, idx is at most the stream length, a  *)
(* fetch reads inside the stream, the jump-table entry read at a LoopStart  *)
(* or LoopEnd is the in-bounds index of its partner, and idx leaves the     *)
(* sequence idx + 1 only at a LoopStart or LoopEnd (the only places where   *)
(* the table is read).                                                      *)
C11_ExecutorStaysInBounds ==
    /\ [](pc \in {"exec", "done"} =>
            /\ 0 <= idx /\ idx <= Len(tokens)
            /\ Len(jumps) = Len(tokens)
            /\ (InExec /\ Token.op = "JUM") =>
                 /\ idx < At(jumps, idx) /\ At(jumps, idx) < Len(tokens)
                 /\ At(tokens, At(jumps, idx)).op = "BAC"
                 /\ At(jumps, At(jumps, idx)) = idx
            /\ (InExec /\ Token.op = "BAC") =>
                 /\ 0 <= At(jumps, idx) /\ At(jumps, idx) < idx
                 /\ At(tokens, At(jumps, idx)).op = "JUM"
                 /\ At(jumps, At(jumps, idx)) = idx)
    /\ [][ (InExec /\ idx' # idx + 1) => Token.op \in {"JUM", "BAC"} ]_vars

(* C11 happens: a LoopStart on a zero cell whose partner is the last        *)
(* instruction of the stream is about to jump to the very end               *)
C11_Witness ==
    /\ InExec
    /\ Token.op = "JUM"
    /\ Cell = 0
    /\ At(jumps, idx) = Len(tokens) - 1

(* The brackets of a source: how many '[' are open after its first k        *)
(* characters, and whether they balance (the count can go below zero only  *)
(* at a ']')                                                                *)
Depth(src, k) ==
    Cardinality({i \in 1..k : src[i] = "["}) - Cardinality({i \in 1..k : src[i] = "]"})

Balanced(src) ==
    /\ \A k \in 1..Len(src) : src[k] = "]" => Depth(src, k) >= 0
    /\ Depth(src, Len(src)) = 0

(* C12: a source with unbalanced brackets never gets past bracket           *)
(* resolution: the run aborts there and stays aborted, with the tape still  *)
(* [0], the pointer 0, no iteration done, no input taken, no output made.   *)
C12_FailureBeforeExecution ==
    /\ ~Balanced(code) => pc \in {"from_source", "find_jumps", "panicked"}
    /\ pc = "panicked" =>
         /\ ~Balanced(code)
         /\ ~ENABLED Next
         /\ stack = <<0>> /\ pointer = 0 /\ idx = 0 /\ iter = 0
         /\ input = <<>> /\ nread = 0 /\ out = <<>>

(* C12 happens: the run has aborted on an unclosed bracket that follows     *)
(* instructions which would have written the tape and printed               *)
C12_Witness ==
    /\ pc = "panicked"
    /\ panic.msg = "Unclosed bracket"
    /\ code = <<"+", ".", "[">>

Recognised == {">", "<", "+", "-", ".", ",", "[", "]"}

CommentOnly(src) == \A i \in 1..Len(src) : src[i] \notin Recognised

StripComments(src) == SelectSeq(src, LAMBDA c : c \in Recognised)

(* C13: a source with none of the eight characters (the empty one too)      *)
(* compiles, and its run goes on until it ends, after at most one           *)
(* iteration, with no output, tape [0] and pointer 0; and the stream any    *)
(* source compiles to is the one its recognised characters alone compile    *)
(* to, so the run, which reads the source through that stream only, is the  *)
(* same with the other characters inserted.                                 *)
C13_CommentaryIgnored ==
    /\ CommentOnly(code) =>
         /\ pc # "panicked"
         /\ pc = "done" \/ ENABLED Next
         /\ pc \in {"find_jumps", "read_input", "exec", "done"} => tokens = <<NAN>>
         /\ out = <<>> /\ stack = <<0>> /\ pointer = 0 /\ iter <= 1
    /\ pc # "from_source" => tokens = Fuse(Lex(StripComments(code)))

(* C13 happens: the run of a source made of two other characters has ended *)
C13_Witness ==
    /\ code = <<"#", "#">>
    /\ pc = "done"
    /\ iter = 1
    /\ out = <<>> /\ stack = <<0>> /\ pointer = 0

(* LoopStarts minus LoopEnds among the instructions a..b of a stream *)
OpenIn(toks, a, b) ==
    Cardinality({k \in a..b : At(toks, k).op = "JUM"})
      - Cardinality({k \in a..b : At(toks, k).op = "BAC"})

BalancedBetween(toks, a, b) ==
    /\ \A k \in a..b : OpenIn(toks, a, k) >= 0
    /\ OpenIn(toks, a, b) = 0

(* C14: the pending indices are kept in increasing order and a LoopEnd      *)
(* takes the last of them, the nearest LoopStart still unmatched; so in the *)
(* finished table the instructions strictly inside a pair are balanced and  *)
(* no two pairs partially overlap.                                          *)
C14_StackDiscipline ==
    /\ [](pc = "find_jumps" =>
            /\ \A a \in 1..Len(queue) :
                 /\ queue[a] < fj
                 /\ At(tokens, queue[a]).op = "JUM"
                 /\ \A b \in (a + 1)..Len(queue) : queue[a] < queue[b]
            /\ \A a \in 1..Len(queue) :
                 BalancedBetween(tokens, queue[a] + 1,
                                 (IF a < Len(queue) THEN queue[a + 1] ELSE fj) - 1))
    /\ [][ (InFindJumps /\ At(tokens, fj).op = "BAC" /\ queue # <<>>) =>
             /\ At(jumps', fj) = queue[Len(queue)]
             /\ queue' = SubSeq(queue, 1, Len(queue) - 1) ]_vars
    /\ [](pc \in {"read_input", "exec", "done"} =>
            \A i \in 0..(Len(tokens) - 1) :
              At(tokens, i).op = "JUM" =>
                /\ BalancedBetween(tokens, i + 1, At(jumps, i) - 1)
                /\ \A k \in 0..(Len(tokens) - 1) :
                     At(tokens, k).op = "JUM" =>
                       ~(i < k /\ k < At(jumps, i) /\ At(jumps, i) < At(jumps, k)))

(* C14 happens: the resolver has finished a stream with a loop inside a     *)
(* loop and a third loop after them                                         *)
C14_Witness ==
    /\ pc = "read_input"
    /\ code = <<"+", "[", "[", "-", "]", "]", "[", "]">>
    /\ jumps = <<0, 0, 6, 5, 0, 3, 2, 8, 7>>

ControlChars == {"[", "]", ",", "."}

ControlOps == {"JUM", "BAC", "ACC", "OUT"}

KindOfChar(c) ==
    CASE c = "[" -> "JUM"
      [] c = "]" -> "BAC"
      [] c = "," -> "ACC"
      [] c = "." -> "OUT"

(* The kinds of the '[', ']', ',' and '.' of a source, in order *)
ControlOfSource(src) ==
    LET cs == SelectSeq(src, LAMBDA c : c \in ControlChars)
    IN  [i \in 1..Len(cs) |-> KindOfChar(cs[i])]

(* The kinds of the LoopStart, LoopEnd, Input and Output of a stream *)
ControlOfStream(toks) ==
    LET ts == SelectSeq(toks, LAMBDA t : t.op \in ControlOps)
    IN  [i \in 1..Len(ts) |-> ts[i].op]

(* C15: in the fused stream no two neighbours are both CellDelta or both    *)
(* PointerDelta, and its LoopStart, LoopEnd, Input and Output are, in       *)
(* number and order, the '[', ']', ',' and '.' of the source.               *)
C15_FusedStreamShape ==
    pc # "from_source" =>
      /\ \A i \in 1..(Len(tokens) - 1) :
           ~(tokens[i].op = tokens[i + 1].op /\ tokens[i].op \in {"CEL", "MOV"})
      /\ ControlOfStream(tokens) = ControlOfSource(code)

(* C15 happens: a source with a run of '+' and a run of '.' has been fused *)
C15_Witness ==
    /\ code = <<"+", "+", ".", ".">>
    /\ tokens = <<NAN, CEL(2), OUT, OUT>>

(* C16: the executor stops only with idx at or past the end of the stream:  *)
(* while idx is inside the stream the loop cannot end, however many         *)
(* iterations have been done (nothing compares iter with a limit).          *)
C16_StopsOnlyAtEndOfStream ==
    /\ pc = "done" => idx >= Len(tokens)
    /\ InExec => ~ENABLED Halt

(* C16 happens: a run of more than 500 iterations has ended at the end of   *)
(* its stream                                                               *)
C16_Witness ==
    /\ pc = "done"
    /\ iter > 500
    /\ idx = Len(tokens)

(* C17: an iteration never shortens the tape; CellDelta and Input change    *)
(* the cell under the pointer and nothing else; a rightward PointerDelta    *)
(* only appends zero cells, a leftward one only prepends zero cells (the    *)
(* cells it had follow, in order); LoopStart, LoopEnd and Output leave the  *)
(* tape and the pointer as they were.                                       *)
C17_TapeFrame ==
    [][ InExec =>
          /\ Len(stack') >= Len(stack)
          /\ Token.op \in {"CEL", "ACC"} =>
               /\ pointer' = pointer
               /\ Len(stack') = Len(stack)
               /\ \A k \in 0..(Len(stack) - 1) :
                    k # pointer => At(stack', k) = At(stack, k)
          /\ (Token.op = "MOV" /\ Token.n > 0) =>
               stack' = stack \o Rep(0, Len(stack') - Len(stack))
          /\ (Token.op = "MOV" /\ Token.n <= 0) =>
               stack' = Rep(0, Len(stack') - Len(stack)) \o stack
          /\ Token.op \in {"JUM", "BAC", "OUT"} =>
               stack' = stack /\ pointer' = pointer ]_vars

(* C17 happens: a leftward move from cell 0 has put a zero cell in front of *)
(* a tape that held 1                                                       *)
C17_Witness ==
    /\ pc = "exec"
    /\ idx > 0
    /\ At(tokens, idx - 1) = MOV(-1)
    /\ stack = <<0, 1>>
    /\ pointer = 0

LoopFree(src) == \A i \in 1..Len(src) : src[i] \notin {"[", "]"}

(* C18: a source without '[' and ']' compiles; after k iterations of its    *)
(* run idx is k, so each iteration has moved idx on by exactly one and the  *)
(* first k instructions have been executed once each in order; and the run  *)
(* ends with idx at the stream length: from_source always returns, after   *)
(* it there is a step that changes the state until the run has ended, and  *)
(* idx cannot pass the stream length.                                      *)
C18_LoopFreeTerminates ==
    LoopFree(code) =>
      /\ pc # "panicked"
      /\ pc \in {"exec", "done"} => iter = idx /\ idx <= Len(tokens)
      /\ pc = "done" => idx = Len(tokens)
      /\ pc \in {"from_source", "done"} \/ ENABLED <<Next>>_vars

(* C18 happens: a loop-free source of six instructions has run to its end *)
C18_Witness ==
    /\ code = <<",", ".", ",", ".", ",", ".">>
    /\ pc = "done"
    /\ idx = 7
    /\ iter = 7

PrimitiveChar(tok) ==
    IF tok.op = "CEL"
    THEN (IF tok.n < 0 THEN "-" ELSE "+")
    ELSE (IF tok.n < 0 THEN "<" ELSE ">")

(* C19: the text of every counted instruction of a fused stream is |n|      *)
(* copies of its primitive character ('+', '-', '>' or '<' by kind and      *)
(* sign, nothing for n = 0), and lexing and fusing that text gives the      *)
(* instruction back, for negative as for positive n.                        *)
C19_ReExpansionRoundTrip ==
    pc # "from_source" =>
      \A i \in 2..Len(tokens) :
        tokens[i].op \in {"CEL", "MOV"} =>
          LET s == StringFrom(tokens[i])
          IN  /\ s.ok
              /\ s.text = Rep(PrimitiveChar(tokens[i]), Abs(tokens[i].n))
              /\ tokens[i].n # 0 => Fuse(Lex(s.text)) = <<NAN, tokens[i]>>

====
